---- MODULE Spec2Model ----
(***************************************************************************)
(* Model of the stream request handler of ygg-stremio-ad                   *)
(* (routes/stream.js) and of the stream cache it uses (utils/db.js).       *)
(*                                                                         *)
(* Strings are sequences of one-character strings, so that split,          *)
(* padStart, toLowerCase, includes and the episode regular expression are  *)
(* computed as the code computes them.  SQL NULL is the value NULL below.  *)
(***************************************************************************)
EXTENDS Integers, Sequences, FiniteSets, Bags, TLC

(***************************************************************************)
(* Bounds of the model.                                                    *)
(***************************************************************************)
MaxFTS == 2
NumWorlds == 7
MaxPuts == 3

\* two instances of the handler: one request, two successive requests or two
\* overlapping requests
Reqs == {1, 2}

(***************************************************************************)
(* String helpers (JavaScript String methods).                             *)
(***************************************************************************)
NULL == <<"NULL">>

Digits == {"0", "1", "2", "3", "4", "5", "6", "7", "8", "9"}

LowerChar(c) ==
  CASE c = "S" -> "s"
    [] c = "E" -> "e"
    [] c = "X" -> "x"
    [] OTHER -> c

ToLowerCase(s) == [i \in 1..Len(s) |-> LowerChar(s[i])]

Includes(hay, needle) ==
  \E i \in 1..(Len(hay) - Len(needle) + 1) :
    SubSeq(hay, i, i + Len(needle) - 1) = needle

PadStart2(s) ==
  IF Len(s) >= 2 THEN s
  ELSE IF Len(s) = 1 THEN <<"0">> \o s
  ELSE <<"0", "0">>

RECURSIVE Split(_, _)
\* id.split(':') : cur is the part being read, the result is the list of parts
Split(s, cur) ==
  IF s = <<>> THEN <<cur>>
  ELSE IF Head(s) = ":" THEN <<cur>> \o Split(Tail(s), <<>>)
  ELSE Split(Tail(s), Append(cur, Head(s)))

\* parts[k] || null  (k is the JavaScript index, 0-based)
PartOrNull(parts, k) ==
  IF k + 1 <= Len(parts) /\ parts[k + 1] # <<>> THEN parts[k + 1] ELSE NULL

\* /s(\d{2})e(\d{2})/ matches at position i of the lower-cased name
EpisodeAt(name, i) ==
  /\ i + 5 <= Len(name)
  /\ name[i] = "s"
  /\ name[i + 1] \in Digits /\ name[i + 2] \in Digits
  /\ name[i + 3] = "e"
  /\ name[i + 4] \in Digits /\ name[i + 5] \in Digits

\* fileName.match(episodeRegex): the first match, or no match
EpisodeMatch(name) ==
  LET low == ToLowerCase(name)
      hits == {i \in 1..Len(low) : EpisodeAt(low, i)}
  IN IF hits = {} THEN [matched |-> FALSE, season |-> NULL, episode |-> NULL]
     ELSE LET i == CHOOSE j \in hits : \A k \in hits : j <= k
          IN [matched |-> TRUE,
              season |-> SubSeq(low, i + 1, i + 2),
              episode |-> SubSeq(low, i + 4, i + 5)]

(***************************************************************************)
(* The stream cache: the rows of table streams_cache, a bag because the    *)
(* PRIMARY KEY of an ordinary SQLite table does not reject NULLs and two   *)
(* NULLs never conflict.                                                   *)
(***************************************************************************)
JSONstringify(streams) == [json |-> streams]

JSONparse(text) == text.json

Row(imdbId, season, episode, streams) ==
  [imdb_id |-> imdbId, season |-> season, episode |-> episode,
   streams_json |-> JSONstringify(streams)]

\* SQL comparison  column = ?  : never true when either side is NULL
SqlEq(col, val) == col # NULL /\ val # NULL /\ col = val

RowMatches(row, imdbId, season, episode) ==
  /\ SqlEq(row.imdb_id, imdbId)
  /\ SqlEq(row.season, season)
  /\ SqlEq(row.episode, episode)

\* two rows collide on the primary key (imdb_id, season, episode)
KeyConflict(row, new) == RowMatches(row, new.imdb_id, new.season, new.episode)

Absent == [found |-> FALSE, streams |-> <<>>]

\* the sequences stored in the rows whose three key columns have these values
HeldUnder(table, imdbId, season, episode) ==
  {JSONparse(row.streams_json) :
     row \in {x \in BagToSet(table) :
                x.imdb_id = imdbId /\ x.season = season /\ x.episode = episode}}

\* SELECT streams_json ... WHERE imdb_id = ? AND season = ? AND episode = ?
GetCachedStream(table, imdbId, season, episode) ==
  LET rows == {r \in BagToSet(table) : RowMatches(r, imdbId, season, episode)}
  IN IF rows = {} THEN Absent
     ELSE LET row == CHOOSE r \in rows : TRUE
          IN [found |-> TRUE, streams |-> JSONparse(row.streams_json)]

\* INSERT OR REPLACE INTO streams_cache ... VALUES (?, ?, ?, ?)
StoreStream(table, imdbId, season, episode, streams) ==
  LET new == Row(imdbId, season, episode, streams)
      kept == {r \in BagToSet(table) : ~KeyConflict(r, new)}
      rest == [r \in kept |-> table[r]]
  IN rest (+) SetToBag({new})

(***************************************************************************)
(* The external adapters (tmdb, yggapi, sharewoodapi, alldebrid) are black *)
(* boxes.  A world fixes their answers for a whole behaviour, so that two  *)
(* identical requests see unchanged adapter responses.                     *)
(***************************************************************************)
Torrent(id, title, hash, source) ==
  [id |-> id, title |-> title, hash |-> hash, source |-> source]

TitlePack == <<"X">>
TitleE02 == <<"X", "S", "0", "1", "E", "0", "2">>
TitleE02Dot == <<"x", "s", "0", "1", ".", "e", "0", "2">>
TitleE03 == <<"X", "S", "0", "1", "E", "0", "3">>
TitleSample == <<"X", "S", "1", "E", "2">>

YggSeries == Torrent("y1", TitlePack, "", "YGG")
YggEp2 == Torrent("y2", TitleE02Dot, "", "YGG")
YggEp3 == Torrent("y3", TitleE03, "", "YGG")
YggMovie1 == Torrent("y4", TitlePack, "", "YGG")
YggMovie2 == Torrent("y5", TitlePack, "", "YGG")
SwSeries == Torrent("s1", TitlePack, "hs1", "Sharewood")
SwSeason == Torrent("s2", TitlePack, "hs2", "Sharewood")
SwEp2 == Torrent("s3", TitleE02, "hs3", "Sharewood")
SwMovie == Torrent("s4", TitlePack, "hs4", "Sharewood")
\* an episode torrent whose title names the episode without zero padding
SwEpLoose == Torrent("s5", TitleSample, "hs5", "Sharewood")

YggIds == {"y1", "y2", "y3", "y4", "y5"}
AllHashes == {"hy1", "hy2", "hy3", "hy4", "hy5", "hs1", "hs2", "hs3", "hs4"}
AllLinks == {"l1", "l2", "l3", "l4", "l5", "l6", "l7", "l8", "l9", "l10", "l11"}

Results(series, season, episodes, movies) ==
  [completeSeriesTorrents |-> series, completeSeasonTorrents |-> season,
   episodeTorrents |-> episodes, movieTorrents |-> movies]

EmptyResults == Results(<<>>, <<>>, <<>>, <<>>)
YggFull == Results(<<YggSeries>>, <<>>, <<YggEp2, YggEp3>>, <<YggMovie1, YggMovie2>>)
SwFull == Results(<<SwSeries>>, <<SwSeason>>, <<SwEp2, SwEpLoose>>, <<SwMovie>>)
\* each source: one complete series and one episode S01E02, nothing else
YggPair == Results(<<YggSeries>>, <<>>, <<YggEp2>>, <<>>)
SwPair == Results(<<SwSeries>>, <<>>, <<SwEp2>>, <<>>)
SwNoMovie == Results(<<SwSeries>>, <<SwSeason>>, <<SwEp2>>, <<>>)

MkWorld(catalog, ygg, sw, hashFail, notReady, unlockFail) ==
  [catalog |-> catalog, ygg |-> ygg, sw |-> sw, hashFail |-> hashFail,
   notReady |-> notReady, unlockFail |-> unlockFail]

World(i) ==
  CASE i = 1 -> MkWorld(TRUE, YggFull, SwFull, {}, {}, {})
    [] i = 2 -> MkWorld(TRUE, YggPair, SwPair, {"y1"}, {"hs1"}, {"l7"})
    [] i = 3 -> MkWorld(TRUE, YggFull, SwNoMovie, {"y4", "y5"}, AllHashes, {})
    [] i = 4 -> MkWorld(TRUE, YggFull, EmptyResults, YggIds, {}, {})
    [] i = 5 -> MkWorld(TRUE, EmptyResults, EmptyResults, {}, {}, {})
    [] i = 6 -> MkWorld(FALSE, YggFull, SwFull, {}, {}, {})
    [] i = 7 -> MkWorld(TRUE, YggPair, SwFull, {"y2"}, {}, {"l1", "l4"})
    [] OTHER -> MkWorld(TRUE, YggFull, SwFull, {}, {}, AllLinks)

Worlds == {World(i) : i \in 1..NumWorlds}

\* tmdb.getTmdbData(imdbId, config): the catalog entry, or nothing
GetTmdbData(w, imdbId) ==
  IF w.catalog THEN [found |-> TRUE, title |-> <<"X">>]
  ELSE [found |-> FALSE, title |-> <<>>]

\* yggapi.getTorrentHashFromYgg(id): the hash, or nothing ("")
GetTorrentHashFromYgg(w, id) ==
  IF id \in w.hashFail THEN ""
  ELSE CASE id = "y1" -> "hy1" [] id = "y2" -> "hy2" [] id = "y3" -> "hy3"
         [] id = "y4" -> "hy4" [] OTHER -> "hy5"

\* alldebrid.uploadMagnets(magnets, config): one status per magnet, in order
UploadMagnets(w, magnets) ==
  [i \in 1..Len(magnets) |->
     [hash |-> magnets[i].hash, id |-> magnets[i].hash, name |-> magnets[i].title,
      source |-> magnets[i].source,
      ready |-> IF magnets[i].hash \in w.notReady THEN "Pending" ELSE "Ready"]]

File(name, link) == [name |-> name, link |-> link]

\* alldebrid.getFilesFromMagnetId(id, source, config): the video files
GetFilesFromMagnetId(w, id) ==
  CASE id = "hy1" -> <<File(TitleE02, "l1"), File(TitleE03, "l2"), File(TitleSample, "l3")>>
    [] id = "hs1" -> <<File(TitleE02, "l4"), File(TitleE02Dot, "l5")>>
    [] id = "hs2" -> <<File(TitleE03, "l6")>>
    [] id = "hy2" -> <<File(TitleE02, "l7")>>
    [] id = "hs3" -> <<File(TitleE02, "l8")>>
    [] id = "hy4" -> <<File(TitlePack, "l9")>>
    [] id = "hy5" -> <<File(TitlePack, "l10"), File(TitleE02, "l11")>>
    [] OTHER -> <<>>

\* alldebrid.unlockFileLink(link, config): the playable url, or nothing (<<>>)
UnlockFileLink(w, link) ==
  IF link \in w.unlockFail THEN <<>> ELSE <<"https", link>>

(***************************************************************************)
(* Requests: the media type, the id of the URL and the decoded             *)
(* configuration.                                                          *)
(***************************************************************************)
Config(valid, n) == [valid |-> valid, FILES_TO_SHOW |-> n]

Request(type, id, config) == [type |-> type, id |-> id, config |-> config]

IdMovie == <<"t">>
IdSeason == <<"t", ":", "1">>
IdS1E2 == <<"t", ":", "1", ":", "2">>
IdS1E3 == <<"t", ":", "1", ":", "3">>
IdS01E03 == <<"t", ":", "0", "1", ":", "0", "3">>

Requests ==
  {Request("series", IdS1E2, Config(TRUE, n)) : n \in 1..MaxFTS}
  \cup {Request("movie", IdMovie, Config(TRUE, n)) : n \in 1..MaxFTS}
  \cup {Request("series", IdS1E3, Config(TRUE, 1)),
        Request("series", IdS01E03, Config(TRUE, 1)),
        Request("series", IdSeason, Config(TRUE, 1)),
        Request("movie", IdMovie, Config(FALSE, 1))}

(***************************************************************************)
(* State.  Every request r runs the handler of                             *)
(* router.get('/:variables/stream/:type/:id.json'); pc[r] names the await  *)
(* the handler is suspended at, loc[r] holds its local variables.          *)
(*   exit[r]   the line of the return statement taken ("throw": the        *)
(*             handler rejected and no response was sent)                  *)
(*   calls[r]  the adapter calls completed so far, in order                *)
(*   writes[r] the rows written to the cache so far, in order              *)
(*   earlier[r] the requests already finished when r arrived               *)
(*   held[r]   the sequences the table held under the exact request key    *)
(*             when the first lookup of r was answered                     *)
(*   puts, got the operations made on the cache alone (CacheSpec)          *)
(* loc[r].err is the line of the await that rejected with a storage or     *)
(* search error, if any.                                                   *)
(***************************************************************************)
VARIABLES world, cache, pc, req, loc, resp, exit, calls, writes, earlier, held, puts, got

vars == <<world, cache, pc, req, loc, resp, exit, calls, writes, earlier, held, puts, got>>

NoRequest == Request("none", <<>>, Config(FALSE, 0))

NoResp == [status |-> 0, streams |-> <<>>]

\* res.json({ streams })
Json(streams) == [status |-> 200, streams |-> streams]

\* res.status(400).json({ error })
ClientError == [status |-> 400, streams |-> <<>>]

NoGet == [asked |-> FALSE, key |-> <<NULL, NULL, NULL>>, result |-> Absent]

InitLoc ==
  [imdbId |-> <<>>, season |-> NULL, episode |-> NULL,
   tmdbData |-> [found |-> FALSE, title |-> <<>>],
   pending |-> {}, yggResults |-> EmptyResults, sharewoodResults |-> EmptyResults,
   allTorrents |-> <<>>, limitedTorrents |-> <<>>, hIdx |-> 0, magnets |-> <<>>,
   readyTorrents |-> <<>>, tIdx |-> 0, videoFiles |-> <<>>, fIdx |-> 0,
   filteredFiles |-> <<>>, streams |-> <<>>,
   streamObj |-> [name |-> "", title |-> <<>>, url |-> <<>>],
   cached |-> Absent, err |-> ""]

Call(kind, arg) == [kind |-> kind, arg |-> arg]

\* the handler is suspended at the await named p
Goto(p, l) == [pc |-> p, loc |-> l, resp |-> NoResp, exit |-> ""]

\* return res.json(...) at the line named line
Return(l, response, line) == [pc |-> "Done", loc |-> l, resp |-> response, exit |-> line]

\* an exception leaves the async handler: the promise rejects, nothing is sent
Throw(l) == [pc |-> "Crashed", loc |-> l, resp |-> NoResp, exit |-> "throw"]

\* the await at the line named line rejects: the error leaves the handler
Reject(l, line) ==
  [pc |-> "Crashed", loc |-> [l EXCEPT !.err = line], resp |-> NoResp, exit |-> line]

(***************************************************************************)
(* Merge and classify (stream.js 75-135).                                  *)
(***************************************************************************)
\* mutant of Combine: the second source's items first
CombineSharewoodFirst(y, s) ==
  Results(s.completeSeriesTorrents \o y.completeSeriesTorrents,
          s.completeSeasonTorrents \o y.completeSeasonTorrents,
          s.episodeTorrents \o y.episodeTorrents,
          s.movieTorrents \o y.movieTorrents)

Combine(y, s) ==
  Results(y.completeSeriesTorrents \o s.completeSeriesTorrents,
          y.completeSeasonTorrents \o s.completeSeasonTorrents,
          y.episodeTorrents \o s.episodeTorrents,
          y.movieTorrents \o s.movieTorrents)

NoResults(c) ==
  /\ c.completeSeriesTorrents = <<>>
  /\ c.completeSeasonTorrents = <<>>
  /\ c.episodeTorrents = <<>>
  /\ c.movieTorrents = <<>>

\* mutant of EpisodeFilter: only the pattern without the dot
EpisodeFilterNoDot(torrent, season, episode) ==
  LET torrentTitle == ToLowerCase(torrent.title)
      pattern1 == <<"s">> \o PadStart2(season) \o <<"e">> \o PadStart2(episode)
  IN Includes(torrentTitle, pattern1)

\* the filter callback: season.padStart / episode.padStart on the request's parts
EpisodeFilter(torrent, season, episode) ==
  LET torrentTitle == ToLowerCase(torrent.title)
      pattern1 == <<"s">> \o PadStart2(season) \o <<"e">> \o PadStart2(episode)
      pattern2 == <<"s">> \o PadStart2(season) \o <<".", "e">> \o PadStart2(episode)
  IN Includes(torrentTitle, pattern1) \/ Includes(torrentTitle, pattern2)

\* null.padStart(...) is a TypeError; the callback runs once per episode torrent
FilterThrows(type, c, season, episode) ==
  /\ type = "series"
  /\ c.episodeTorrents # <<>>
  /\ (season = NULL \/ episode = NULL)

AllTorrents(type, c, season, episode) ==
  IF type = "series"
  THEN c.completeSeriesTorrents \o c.completeSeasonTorrents
         \o SelectSeq(c.episodeTorrents, LAMBDA t : EpisodeFilter(t, season, episode))
  ELSE IF type = "movie" THEN c.movieTorrents
  ELSE <<>>

\* array.slice(0, n)
Slice(s, n) == SubSeq(s, 1, IF n < Len(s) THEN n ELSE Len(s))

\* mutant of MaxTorrentsToProcess: a wider window
MaxTorrentsTriple(config) == config.FILES_TO_SHOW * 3

MaxTorrentsToProcess(config) == config.FILES_TO_SHOW * 2

Magnet(hash, torrent) ==
  [hash |-> hash, title |-> torrent.title,
   source |-> IF torrent.source # "" THEN torrent.source ELSE "Unknown"]

(***************************************************************************)
(* The synchronous stretches of the handler between two awaits.            *)
(***************************************************************************)
\* mutant of Finish: the batch is written whatever its length
FinishAlwaysStore(l) == Goto("FinalStore", l)

\* stream.js 261-268
Finish(l) ==
  IF Len(l.streams) > 0 THEN Goto("FinalStore", l)
  ELSE Return(l, Json(l.streams), "L268")

\* stream.js 176-182: the head of the loop over the ready torrents
TorrentLoop(l, t, q) ==
  IF t <= Len(l.readyTorrents) /\ ~(Len(l.streams) >= q.config.FILES_TO_SHOW)
  THEN Goto("ListFiles", [l EXCEPT !.tIdx = t])
  ELSE Finish(l)

\* does the file reach an await (series: only with an episode match)
FileAwaits(type, file) ==
  IF type = "series" THEN EpisodeMatch(file.name).matched
  ELSE type = "movie"

\* stream.js 186-193, 250: skip to the next file that awaits; after the last
\* file the torrent's filteredFiles are pushed to streams
FileLoop(l, f, q) ==
  LET todo == {i \in f..Len(l.videoFiles) : FileAwaits(q.type, l.videoFiles[i])}
  IN IF todo # {}
     THEN Goto("FileLookup", [l EXCEPT !.fIdx = CHOOSE i \in todo : \A j \in todo : i <= j])
     ELSE TorrentLoop([l EXCEPT !.streams = @ \o l.filteredFiles], l.tIdx + 1, q)

\* the cache key of the file at hand: detected season/episode, or null/null
FileKey(type, file) ==
  IF type = "series"
  THEN [season |-> EpisodeMatch(file.name).season, episode |-> EpisodeMatch(file.name).episode]
  ELSE [season |-> NULL, episode |-> NULL]

\* mutant of PushCondition: the detected episode is not compared
PushUnderCap(l, q, file) == Len(l.filteredFiles) < q.config.FILES_TO_SHOW

\* stream.js 215-219 and 242: may the stream go to filteredFiles
PushCondition(l, q, file) ==
  IF q.type = "series"
  THEN /\ l.season # NULL /\ FileKey(q.type, file).season = PadStart2(l.season)
       /\ l.episode # NULL /\ FileKey(q.type, file).episode = PadStart2(l.episode)
       /\ Len(l.filteredFiles) < q.config.FILES_TO_SHOW
  ELSE Len(l.filteredFiles) < q.config.FILES_TO_SHOW

\* stream.js 214-223 / 242-246, then on to the next file
PushAndNext(l, q, streamObj) ==
  LET file == l.videoFiles[l.fIdx]
      pushed == IF PushCondition(l, q, file)
                THEN [l EXCEPT !.filteredFiles = Append(@, streamObj)]
                ELSE l
  IN FileLoop(pushed, l.fIdx + 1, q)

\* mutant of AfterHashes: the empty magnet list is uploaded all the same
AfterHashesNoReturn(l) == Goto("Upload", l)

\* stream.js 153-159
AfterHashes(l) ==
  IF Len(l.magnets) = 0 THEN Return(l, Json(<<>>), "L158")
  ELSE Goto("Upload", l)

\* mutant of HashLoop: the hash is looked up for every candidate
HashLoopLookupAll(l, i) ==
  IF i > Len(l.limitedTorrents) THEN AfterHashes(l)
  ELSE Goto("ResolveHash", [l EXCEPT !.hIdx = i])

RECURSIVE HashLoop(_, _)
\* stream.js 139-151: torrents that carry a hash are pushed without an await
HashLoop(l, i) ==
  IF i > Len(l.limitedTorrents) THEN AfterHashes(l)
  ELSE IF l.limitedTorrents[i].hash # ""
  THEN HashLoop([l EXCEPT !.magnets =
                   Append(@, Magnet(l.limitedTorrents[i].hash, l.limitedTorrents[i]))],
                i + 1)
  ELSE Goto("ResolveHash", [l EXCEPT !.hIdx = i])

\* stream.js 75-135, entered when both searches have returned
Merge(l, q) ==
  LET combined == Combine(l.yggResults, l.sharewoodResults)
  IN IF NoResults(combined) THEN Return(l, Json(<<>>), "L104")
     ELSE IF FilterThrows(q.type, combined, l.season, l.episode) THEN Throw(l)
     ELSE LET all == AllTorrents(q.type, combined, l.season, l.episode)
          IN HashLoop([l EXCEPT !.allTorrents = all,
                                !.limitedTorrents =
                                   Slice(all, MaxTorrentsToProcess(q.config))],
                      1)

(***************************************************************************)
(* Actions: one per await of the handler.                                  *)
(***************************************************************************)
Init ==
  /\ world \in Worlds
  /\ cache = EmptyBag
  /\ pc = [r \in Reqs |-> "Idle"]
  /\ req = [r \in Reqs |-> NoRequest]
  /\ loc = [r \in Reqs |-> InitLoc]
  /\ resp = [r \in Reqs |-> NoResp]
  /\ exit = [r \in Reqs |-> ""]
  /\ calls = [r \in Reqs |-> <<>>]
  /\ writes = [r \in Reqs |-> <<>>]
  /\ earlier = [r \in Reqs |-> {}]
  /\ held = [r \in Reqs |-> {}]
  /\ puts = <<>>
  /\ got = NoGet

\* the handler of r moves on as the synchronous stretch res says
Resume(r, res) ==
  /\ pc' = [pc EXCEPT ![r] = res.pc]
  /\ loc' = [loc EXCEPT ![r] = res.loc]
  /\ resp' = [resp EXCEPT ![r] = res.resp]
  /\ exit' = [exit EXCEPT ![r] = res.exit]

Finished(r) == pc[r] \in {"Done", "Crashed"}

\* helpers.getConfig(req): throws on a configuration that cannot be decoded
GetConfig(q) == [ok |-> q.config.valid, config |-> q.config]

\* mutant of Start: the exception of getConfig is swallowed
StartNoConfigCheck(r, q) ==
  /\ pc[r] = "Idle"
  /\ \A o \in Reqs : o < r => pc[o] # "Idle"
  /\ req' = [req EXCEPT ![r] = q]
  /\ earlier' = [earlier EXCEPT ![r] = {o \in Reqs : Finished(o)}]
  /\ LET parts == Split(q.id, <<>>)
         l == [InitLoc EXCEPT !.imdbId = parts[1],
                              !.season = PartOrNull(parts, 1),
                              !.episode = PartOrNull(parts, 2)]
     IN Resume(r, Goto("CheckCache", l))
  /\ UNCHANGED <<world, cache, calls, writes, held, puts, got>>

\* stream.js 12-38: a request arrives; configuration, id parsing, cache lookup issued
Start(r, q) ==
  /\ pc[r] = "Idle"
  /\ \A o \in Reqs : o < r => pc[o] # "Idle"
  /\ req' = [req EXCEPT ![r] = q]
  /\ earlier' = [earlier EXCEPT ![r] = {o \in Reqs : Finished(o)}]
  /\ LET parts == Split(q.id, <<>>)
         l == [InitLoc EXCEPT !.imdbId = parts[1],
                              !.season = PartOrNull(parts, 1),
                              !.episode = PartOrNull(parts, 2)]
     IN IF ~GetConfig(q).ok
        THEN Resume(r, Return(InitLoc, ClientError, "L25"))
        ELSE Resume(r, Goto("CheckCache", l))
  /\ UNCHANGED <<world, cache, calls, writes, held, puts, got>>

\* stream.js 38-46: the cache answers for the exact request key
CheckCache(r) ==
  /\ pc[r] = "CheckCache"
  /\ LET l == loc[r]
         cachedStream == GetCachedStream(cache, l.imdbId, l.season, l.episode)
     IN IF cachedStream.found
        THEN Resume(r, Return(l, Json(cachedStream.streams), "L41"))
        ELSE Resume(r, Goto("FetchCatalog", l))
  /\ held' = [held EXCEPT ![r] =
       HeldUnder(cache, loc[r].imdbId, loc[r].season, loc[r].episode)]
  /\ UNCHANGED <<world, cache, req, calls, writes, earlier, puts, got>>

\* stream.js 46-69: the catalog answers; both searches are started
FetchCatalog(r) ==
  /\ pc[r] = "FetchCatalog"
  /\ calls' = [calls EXCEPT ![r] = Append(@, Call("catalog", loc[r].imdbId))]
  /\ LET l == loc[r]
         tmdbData == GetTmdbData(world, l.imdbId)
     IN IF ~tmdbData.found
        THEN Resume(r, Return(l, Json(<<>>), "L49"))
        ELSE Resume(r, Goto("Search", [l EXCEPT !.tmdbData = tmdbData,
                                                 !.pending = {"ygg", "sharewood"}]))
  /\ UNCHANGED <<world, cache, req, writes, earlier, held, puts, got>>

\* mutant of SearchDone: the results are taken in the order of arrival
SearchDoneArrival(r, src) ==
  /\ pc[r] = "Search"
  /\ src \in loc[r].pending
  /\ calls' = [calls EXCEPT ![r] = Append(@, Call("search", <<src>>))]
  /\ LET res == IF src = "ygg" THEN world.ygg ELSE world.sw
         l == IF loc[r].pending = {"ygg", "sharewood"}
              THEN [loc[r] EXCEPT !.yggResults = res, !.pending = @ \ {src}]
              ELSE [loc[r] EXCEPT !.sharewoodResults = res, !.pending = @ \ {src}]
     IN IF l.pending # {}
        THEN Resume(r, Goto("Search", l))
        ELSE Resume(r, Merge(l, req[r]))
  /\ UNCHANGED <<world, cache, req, writes, earlier, held, puts, got>>

\* stream.js 53-69: one search returns; Promise.all resolves with the second
SearchDone(r, src) ==
  /\ pc[r] = "Search"
  /\ src \in loc[r].pending
  /\ calls' = [calls EXCEPT ![r] = Append(@, Call("search", <<src>>))]
  /\ LET l == IF src = "ygg"
              THEN [loc[r] EXCEPT !.yggResults = world.ygg, !.pending = @ \ {src}]
              ELSE [loc[r] EXCEPT !.sharewoodResults = world.sw, !.pending = @ \ {src}]
     IN IF l.pending # {}
        THEN Resume(r, Goto("Search", l))
        ELSE Resume(r, Merge(l, req[r]))
  /\ UNCHANGED <<world, cache, req, writes, earlier, held, puts, got>>

\* stream.js 143-150: the hash lookup of a torrent without hash returns
ResolveHash(r) ==
  /\ pc[r] = "ResolveHash"
  /\ LET l == loc[r]
         torrent == l.limitedTorrents[l.hIdx]
         hash == GetTorrentHashFromYgg(world, torrent.id)
     IN /\ calls' = [calls EXCEPT ![r] = Append(@, Call("hash", <<torrent.id>>))]
        /\ IF hash # ""
           THEN Resume(r, HashLoop([l EXCEPT !.limitedTorrents[l.hIdx].hash = hash,
                                             !.allTorrents[l.hIdx].hash = hash,
                                             !.magnets = Append(@, Magnet(hash, torrent))],
                                   l.hIdx + 1))
           ELSE Resume(r, HashLoop(l, l.hIdx + 1))
  /\ UNCHANGED <<world, cache, req, writes, earlier, held, puts, got>>

\* mutant of Upload: every uploaded torrent is taken as ready
UploadAllReady(r) ==
  /\ pc[r] = "Upload"
  /\ LET l == loc[r]
         uploadedStatuses == UploadMagnets(world, l.magnets)
     IN /\ calls' = [calls EXCEPT ![r] =
                       Append(@, Call("upload", [i \in 1..Len(l.magnets) |-> l.magnets[i].hash]))]
        /\ Resume(r, TorrentLoop([l EXCEPT !.readyTorrents = uploadedStatuses], 1, req[r]))
  /\ UNCHANGED <<world, cache, req, writes, earlier, held, puts, got>>

\* stream.js 163-182: the upload returns; the ready torrents are kept
Upload(r) ==
  /\ pc[r] = "Upload"
  /\ LET l == loc[r]
         uploadedStatuses == UploadMagnets(world, l.magnets)
         readyTorrents == SelectSeq(uploadedStatuses, LAMBDA file : file.ready = "Ready")
     IN /\ calls' = [calls EXCEPT ![r] =
                       Append(@, Call("upload", [i \in 1..Len(l.magnets) |-> l.magnets[i].hash]))]
        /\ Resume(r, TorrentLoop([l EXCEPT !.readyTorrents = readyTorrents], 1, req[r]))
  /\ UNCHANGED <<world, cache, req, writes, earlier, held, puts, got>>

\* stream.js 182-198: the file list of a ready torrent returns
ListFiles(r) ==
  /\ pc[r] = "ListFiles"
  /\ LET l == loc[r]
         torrent == l.readyTorrents[l.tIdx]
         videoFiles == GetFilesFromMagnetId(world, torrent.id)
     IN /\ calls' = [calls EXCEPT ![r] = Append(@, Call("list", <<torrent.id>>))]
        /\ Resume(r, FileLoop([l EXCEPT !.videoFiles = videoFiles, !.filteredFiles = <<>>],
                              1, req[r]))
  /\ UNCHANGED <<world, cache, req, writes, earlier, held, puts, got>>

\* mutant of FileLookup: the answer of the cache is not looked at
FileLookupThenUnlock(r) ==
  /\ pc[r] = "FileLookup"
  /\ LET file == loc[r].videoFiles[loc[r].fIdx]
         key == FileKey(req[r].type, file)
         cached == GetCachedStream(cache, loc[r].imdbId, key.season, key.episode)
     IN Resume(r, Goto("Unlock", [loc[r] EXCEPT !.cached = cached]))
  /\ UNCHANGED <<world, cache, req, calls, writes, earlier, held, puts, got>>

\* stream.js 198-204 / 226-232: the per-file cache lookup returns
FileLookup(r) ==
  /\ pc[r] = "FileLookup"
  /\ LET file == loc[r].videoFiles[loc[r].fIdx]
         key == FileKey(req[r].type, file)
         cached == GetCachedStream(cache, loc[r].imdbId, key.season, key.episode)
         l == [loc[r] EXCEPT !.cached = cached]
     IN IF cached.found /\ Len(cached.streams) > 0
        THEN Resume(r, PushAndNext(l, req[r], cached.streams[1]))
        ELSE Resume(r, Goto("Unlock", l))
  /\ UNCHANGED <<world, cache, req, calls, writes, earlier, held, puts, got>>

StreamObj(torrent, tmdbData, file, unlockedLink) ==
  [name |-> torrent.source, title |-> <<tmdbData.title, file.name>>, url |-> unlockedLink]

\* stream.js 204-211 / 232-239: the unlock returns
Unlock(r) ==
  /\ pc[r] = "Unlock"
  /\ LET l == loc[r]
         file == l.videoFiles[l.fIdx]
         unlockedLink == UnlockFileLink(world, file.link)
     IN /\ calls' = [calls EXCEPT ![r] = Append(@, Call("unlock", <<file.link>>))]
        /\ IF unlockedLink = <<>>
           THEN Resume(r, FileLoop(l, l.fIdx + 1, req[r]))
           ELSE Resume(r, Goto("StoreFile",
                  [l EXCEPT !.streamObj =
                     StreamObj(l.readyTorrents[l.tIdx], l.tmdbData, file, unlockedLink)]))
  /\ UNCHANGED <<world, cache, req, writes, earlier, held, puts, got>>

\* stream.js 211-223 / 239-246: the per-file cache write returns
StoreFile(r) ==
  /\ pc[r] = "StoreFile"
  /\ LET l == loc[r]
         key == FileKey(req[r].type, l.videoFiles[l.fIdx])
     IN /\ cache' = StoreStream(cache, l.imdbId, key.season, key.episode, <<l.streamObj>>)
        /\ writes' = [writes EXCEPT ![r] =
                        Append(@, Row(l.imdbId, key.season, key.episode, <<l.streamObj>>))]
        /\ Resume(r, PushAndNext(l, req[r], l.streamObj))
  /\ UNCHANGED <<world, req, calls, earlier, held, puts, got>>

\* stream.js 263-268: the batch write returns; the response is sent
FinalStore(r) ==
  /\ pc[r] = "FinalStore"
  /\ LET l == loc[r]
     IN /\ cache' = StoreStream(cache, l.imdbId, l.season, l.episode, l.streams)
        /\ writes' = [writes EXCEPT ![r] =
                        Append(@, Row(l.imdbId, l.season, l.episode, l.streams))]
        /\ Resume(r, Return(l, Json(l.streams), "L268"))
  /\ UNCHANGED <<world, req, calls, earlier, held, puts, got>>

Next ==
  \E r \in Reqs :
    \/ \E q \in Requests : Start(r, q)
    \/ CheckCache(r)
    \/ FetchCatalog(r)
    \/ \E src \in {"ygg", "sharewood"} : SearchDone(r, src)
    \/ ResolveHash(r)
    \/ Upload(r)
    \/ ListFiles(r)
    \/ FileLookup(r)
    \/ Unlock(r)
    \/ StoreFile(r)
    \/ FinalStore(r)

Spec == Init /\ [][Next]_vars

(***************************************************************************)
(* Failures: the database driver calls back with an error, a search        *)
(* rejects.  FaultSpec is Spec with these outcomes added.                  *)
(***************************************************************************)
\* the line of the cache call the handler of r is suspended at
CacheLine(r) ==
  CASE pc[r] = "CheckCache" -> "L38"
    [] pc[r] = "FileLookup" -> IF req[r].type = "series" THEN "L198" ELSE "L226"
    [] pc[r] = "StoreFile" -> IF req[r].type = "series" THEN "L211" ELSE "L239"
    [] OTHER -> "L263"

\* mutant of GetCachedStreamRejects: the error is answered like a miss
GetCachedStreamMasked(r) ==
  /\ pc[r] \in {"CheckCache", "FileLookup"}
  /\ LET l == [loc[r] EXCEPT !.err = CacheLine(r)]
     IN IF pc[r] = "CheckCache"
        THEN Resume(r, Goto("FetchCatalog", l))
        ELSE Resume(r, Goto("Unlock", l))
  /\ UNCHANGED <<world, cache, req, calls, writes, earlier, held, puts, got>>

\* db.js 72: db.get calls back with err, getCachedStream rejects
GetCachedStreamRejects(r) ==
  /\ pc[r] \in {"CheckCache", "FileLookup"}
  /\ Resume(r, Reject(loc[r], CacheLine(r)))
  /\ UNCHANGED <<world, cache, req, calls, writes, earlier, held, puts, got>>

\* db.js 94: db.run calls back with err, storeStream rejects, no row is written
StoreStreamRejects(r) ==
  /\ pc[r] \in {"StoreFile", "FinalStore"}
  /\ Resume(r, Reject(loc[r], CacheLine(r)))
  /\ UNCHANGED <<world, cache, req, calls, writes, earlier, held, puts, got>>

\* stream.js 53-69: a search rejects, Promise.all rejects with it at once
SearchRejects(r, src) ==
  /\ pc[r] = "Search"
  /\ src \in loc[r].pending
  /\ Resume(r, Reject(loc[r], "L53"))
  /\ UNCHANGED <<world, cache, req, calls, writes, earlier, held, puts, got>>

FaultNext ==
  \/ Next
  \/ \E r \in Reqs :
       \/ GetCachedStreamRejects(r)
       \/ StoreStreamRejects(r)
       \/ \E src \in {"ygg", "sharewood"} : SearchRejects(r, src)

FaultSpec == Init /\ [][FaultNext]_vars

(***************************************************************************)
(* The cache on its own: any sequence of storeStream / getCachedStream.    *)
(***************************************************************************)
StreamA == [name |-> "YGG", title |-> <<TitlePack, TitleE02>>, url |-> <<"https", "l1">>]
StreamB == [name |-> "Sharewood", title |-> <<TitlePack, TitleE03>>, url |-> <<"https", "l2">>]

CacheKeys == {<<"t">>} \X {NULL, <<"1">>} \X {NULL, <<"2">>, <<"3">>}

CacheValues == {<<>>, <<StreamA>>, <<StreamA, StreamB>>}

CacheInit == Init /\ world = World(1)

PutStreams(k, v) ==
  /\ Len(puts) < MaxPuts
  /\ cache' = StoreStream(cache, k[1], k[2], k[3], v)
  /\ puts' = Append(puts, Row(k[1], k[2], k[3], v))
  /\ got' = NoGet
  /\ UNCHANGED <<world, pc, req, loc, resp, exit, calls, writes, earlier, held>>

GetStreams(k) ==
  /\ got' = [asked |-> TRUE, key |-> k, result |-> GetCachedStream(cache, k[1], k[2], k[3])]
  /\ UNCHANGED <<world, cache, pc, req, loc, resp, exit, calls, writes, earlier, held, puts>>

CacheNext ==
  \/ \E k \in CacheKeys, v \in CacheValues : PutStreams(k, v)
  \/ \E k \in CacheKeys : GetStreams(k)

CacheSpec == CacheInit /\ [][CacheNext]_vars

(***************************************************************************)
(* Properties.                                                             *)
(***************************************************************************)
KindsOf(r) == {calls[r][i].kind : i \in 1..Len(calls[r])}

Ids(torrents) == [i \in 1..Len(torrents) |-> torrents[i].id]

\* the two searches of r have returned and the candidate list has been built
Merged(r) ==
  \/ pc[r] \in {"ResolveHash", "Upload", "ListFiles", "FileLookup", "Unlock",
                "StoreFile", "FinalStore"}
  \/ exit[r] \in {"L158", "L268"}

\* r had a valid configuration and its exact-key lookup found nothing
Missed(r) == pc[r] \notin {"Idle", "CheckCache"} /\ exit[r] \notin {"L25", "L41"}

\* C1: the response of the handler never carries more than FILES_TO_SHOW
\* StreamEntry values.
C1_OutputCap ==
  \A r \in Reqs :
    (pc[r] = "Done" /\ resp[r].status = 200)
      => Len(resp[r].streams) <= req[r].config.FILES_TO_SHOW

\* C2 (the case of a first call that returned streams): a second, identical
\* request made after the first was answered gets the identical sequence and
\* makes no adapter call.
C2_Idempotent ==
  \A a \in Reqs : \A b \in Reqs :
    (/\ a \in earlier[b] /\ req[a] = req[b]
     /\ pc[a] = "Done" /\ pc[b] = "Done"
     /\ resp[a].status = 200 /\ resp[a].streams # <<>>)
      => (resp[b] = resp[a] /\ calls[b] = <<>>)

\* C3: when the table holds an entry under the exact request key (null
\* included) at the first lookup, the handler answers with that entry from
\* line 41, with no adapter call and no cache write.
C3_HitResponds ==
  \A r \in Reqs :
    held[r] # {}
      => (/\ pc[r] = "Done" /\ exit[r] = "L41"
          /\ resp[r].status = 200 /\ resp[r].streams \in held[r]
          /\ calls[r] = <<>> /\ writes[r] = <<>>)

\* C5: once a sequence is stored under (imdbId, null, null), a lookup of
\* (imdbId, null, null) finds a stored sequence.
C5_MovieKeyFound ==
  \A row \in BagToSet(cache) :
    (row.season = NULL /\ row.episode = NULL)
      => LET c == GetCachedStream(cache, row.imdb_id, NULL, NULL)
         IN c.found /\ c.streams \in HeldUnder(cache, row.imdb_id, NULL, NULL)

\* the request b asks for season s, episode e (two-digit forms) of a series
AsksEpisode(b, s, e) ==
  /\ req[b].type = "series"
  /\ loc[b].season # NULL /\ PadStart2(loc[b].season) = s
  /\ loc[b].episode # NULL /\ PadStart2(loc[b].episode) = e

\* C6: a file of another episode unlocked and stored by an earlier series
\* request makes a later request for that episode a cache hit without any
\* adapter call.
C6_SiblingServed ==
  \A a \in Reqs : \A b \in Reqs : \A i \in 1..Len(writes[a]) :
    LET w == writes[a][i]
    IN (/\ a \in earlier[b] /\ req[a].type = "series"
        /\ w.season # NULL /\ w.episode # NULL
        /\ ~AsksEpisode(a, PadStart2(w.season), PadStart2(w.episode))
        /\ loc[b].imdbId = w.imdb_id /\ AsksEpisode(b, w.season, w.episode)
        /\ pc[b] \notin {"Idle", "CheckCache"})
         => (exit[b] = "L41" /\ calls[b] = <<>>)

\* C10: a request whose handler has ended has been answered: success with a
\* streams sequence, or a client error when the configuration is invalid.
C10_Answered ==
  \A r \in Reqs :
    Finished(r)
      => /\ resp[r].status \in {200, 400}
         /\ resp[r].status = 400 <=> ~req[r].config.valid

\* the ids of the torrents a source returned in a bucket
BucketIds(res, bucket) == {res[bucket][i].id : i \in 1..Len(res[bucket])}

InBucket(bucket, id) ==
  id \in BucketIds(world.ygg, bucket) \cup BucketIds(world.sw, bucket)

BucketRank(id) ==
  IF InBucket("completeSeriesTorrents", id) THEN 1
  ELSE IF InBucket("completeSeasonTorrents", id) THEN 2
  ELSE IF InBucket("episodeTorrents", id) THEN 3
  ELSE 4

Buckets ==
  {"completeSeriesTorrents", "completeSeasonTorrents", "episodeTorrents", "movieTorrents"}

SourceRank(id) ==
  IF \E b \in Buckets : id \in BucketIds(world.ygg, b) THEN 1 ELSE 2

\* the position of the torrent in the list its source returned it in
PosInSource(id) ==
  LET res == IF SourceRank(id) = 1 THEN world.ygg ELSE world.sw
      b == CHOOSE x \in Buckets : id \in BucketIds(res, x)
  IN CHOOSE i \in 1..Len(res[b]) : res[b][i].id = id

Precedes(x, y) ==
  \/ BucketRank(x) < BucketRank(y)
  \/ BucketRank(x) = BucketRank(y) /\ SourceRank(x) < SourceRank(y)
  \/ BucketRank(x) = BucketRank(y) /\ SourceRank(x) = SourceRank(y)
       /\ PosInSource(x) < PosInSource(y)

\* C7: in the merged list of a series request complete series precede
\* complete seasons, which precede the kept episode torrents; inside a bucket
\* the first source precedes the second and each source keeps its order; two
\* sources with one series item and one S01E02 item each give
\* [series 1, series 2, episode 1, episode 2]; a movie request gets the
\* concatenated movieTorrents.
C7_Ordering ==
  \A r \in Reqs :
    Merged(r) =>
      LET all == loc[r].allTorrents
      IN /\ req[r].type = "series" =>
              /\ \A i \in 1..Len(all) : \A j \in 1..Len(all) :
                   i < j => Precedes(all[i].id, all[j].id)
              /\ \A i \in 1..Len(all) : BucketRank(all[i].id) \in {1, 2, 3}
              /\ \A id \in BucketIds(world.ygg, "completeSeriesTorrents")
                        \cup BucketIds(world.sw, "completeSeriesTorrents")
                        \cup BucketIds(world.ygg, "completeSeasonTorrents")
                        \cup BucketIds(world.sw, "completeSeasonTorrents") :
                   \E i \in 1..Len(all) : all[i].id = id
              /\ (world.ygg = YggPair /\ world.sw = SwPair /\ req[r].id = IdS1E2)
                   => Ids(all) = <<"y1", "s1", "y2", "s3">>
         /\ req[r].type = "movie" =>
              Ids(all) = Ids(world.ygg.movieTorrents) \o Ids(world.sw.movieTorrents)

\* C7 witness: the two-source scenario has been merged for a series request
C7_Witness ==
  \E r \in Reqs :
    /\ Merged(r) /\ req[r].type = "series" /\ req[r].id = IdS1E2
    /\ world.ygg = YggPair /\ world.sw = SwPair
    /\ Len(loc[r].allTorrents) = 4

\* the length of the window of candidates that enter hash resolution
Window(r) ==
  LET n == 2 * req[r].config.FILES_TO_SHOW
  IN IF Len(loc[r].allTorrents) < n THEN Len(loc[r].allTorrents) ELSE n

\* C8: the candidates entering hash resolution are the first 2 x FILES_TO_SHOW
\* of the merged list; no hash lookup or upload precedes the truncation and no
\* hash lookup is made for a candidate beyond it.
C8_Truncation ==
  \A r \in Reqs :
    /\ Merged(r) =>
         /\ Len(loc[r].limitedTorrents) <= 2 * req[r].config.FILES_TO_SHOW
         /\ Ids(loc[r].limitedTorrents) = Ids(SubSeq(loc[r].allTorrents, 1, Window(r)))
    /\ \A c \in 1..Len(calls[r]) :
         calls[r][c].kind = "hash" =>
           /\ Merged(r)
           /\ \E i \in 1..Window(r) : loc[r].allTorrents[i].id = calls[r][c].arg[1]
    /\ ~Merged(r) => KindsOf(r) \cap {"hash", "upload"} = {}

\* C8 witness: more candidates than the window, and a hash lookup was made
C8_Witness ==
  \E r \in Reqs :
    /\ Merged(r)
    /\ Len(loc[r].allTorrents) > 2 * req[r].config.FILES_TO_SHOW
    /\ "hash" \in KindsOf(r)

AllEmpty(res) == \A b \in Buckets : Len(res[b]) = 0

EmptyAnswer(r) == pc[r] = "Done" /\ resp[r] = [status |-> 200, streams |-> <<>>]

\* hash resolution of r is over and no candidate has a hash
NoCandidate(r) ==
  /\ Merged(r) /\ pc[r] # "ResolveHash"
  /\ \A i \in 1..Len(loc[r].limitedTorrents) : loc[r].limitedTorrents[i].hash = ""

\* the upload of r has returned and none of the uploaded magnets is ready
NoneReady(r) ==
  /\ "upload" \in KindsOf(r)
  /\ \A i \in 1..Len(loc[r].magnets) : loc[r].magnets[i].hash \in world.notReady

\* C9: no catalog entry, no search result, no uploadable candidate, no ready
\* torrent: each gives { streams: [] } and no adapter of a later stage is called.
C9_ShortCircuits ==
  \A r \in Reqs :
    /\ (Missed(r) /\ ~world.catalog) =>
         /\ KindsOf(r) \subseteq {"catalog"} /\ writes[r] = <<>>
         /\ pc[r] # "FetchCatalog" => EmptyAnswer(r)
    /\ (Missed(r) /\ world.catalog /\ AllEmpty(world.ygg) /\ AllEmpty(world.sw)) =>
         /\ KindsOf(r) \subseteq {"catalog", "search"} /\ writes[r] = <<>>
         /\ pc[r] \notin {"FetchCatalog", "Search"} => EmptyAnswer(r)
    /\ NoCandidate(r) =>
         /\ KindsOf(r) \cap {"upload", "list", "unlock"} = {} /\ writes[r] = <<>>
         /\ EmptyAnswer(r)
    /\ NoneReady(r) =>
         /\ KindsOf(r) \cap {"list", "unlock"} = {} /\ writes[r] = <<>>
         /\ EmptyAnswer(r)

\* C9 witness: a movie request ended with no magnet after failed hash lookups
\* and a series request ended with magnets uploaded and none ready
C9_Witness ==
  \E a \in Reqs : \E b \in Reqs :
    /\ NoCandidate(a) /\ "hash" \in KindsOf(a) /\ exit[a] = "L158"
    /\ NoneReady(b) /\ exit[b] = "L268"

\* the sequence of the most recent put on the key, if any
LastPut(k) ==
  LET on == {i \in 1..Len(puts) :
               puts[i].imdb_id = k[1] /\ puts[i].season = k[2] /\ puts[i].episode = k[3]}
  IN IF on = {} THEN Absent
     ELSE [found |-> TRUE,
           streams |-> JSONparse(puts[CHOOSE i \in on : \A j \in on : j <= i].streams_json)]

\* C4: getStreams returns what the most recent putStreams on the same key
\* stored, and absent when nothing was put on that exact key.
C4_RoundTrip == got.asked => got.result = LastPut(got.key)

\* C11: a request whose configuration cannot be decoded is answered with the
\* client error of line 25 as soon as it arrives: its handler never waits
\* for a cache lookup or an adapter, and it has made no adapter call and no
\* cache write.
C11_ConfigError ==
  \A r \in Reqs :
    (pc[r] # "Idle" /\ ~req[r].config.valid)
      => (/\ pc[r] = "Done" /\ exit[r] = "L25" /\ resp[r] = ClientError
          /\ calls[r] = <<>> /\ writes[r] = <<>> /\ held[r] = {}
          /\ loc[r] = InitLoc)

\* C11 witness: a request with an invalid configuration was answered while
\* the table held rows and another request was in flight
C11_Witness ==
  \E r \in Reqs : \E o \in Reqs :
    /\ pc[r] = "Done" /\ ~req[r].config.valid /\ resp[r].status = 400
    /\ cache # EmptyBag /\ pc[o] \notin {"Idle", "Done", "Crashed"}

\* a cache call of r was answered with an error
CacheFailed(r) == loc[r].err \in {"L38", "L198", "L226", "L211", "L239", "L263"}

TwoDigits(s) == IF Len(s) = 1 THEN <<"0", s[1]>> ELSE s

\* the character c is the letter x in either case
IsLetter(c, x) == c = x \/ (x = "s" /\ c = "S") \/ (x = "e" /\ c = "E")

\* S<ss>E<ee> (dot = FALSE) or S<ss>.E<ee> (dot = TRUE) stands at position i
NamedAt(title, i, ss, ee, dot) ==
  LET d == IF dot THEN 1 ELSE 0
      e == i + 1 + Len(ss) + d
  IN /\ e + Len(ee) <= Len(title)
     /\ IsLetter(title[i], "s")
     /\ \A k \in 1..Len(ss) : title[i + k] = ss[k]
     /\ dot => title[e - 1] = "."
     /\ IsLetter(title[e], "e")
     /\ \A k \in 1..Len(ee) : title[e + k] = ee[k]

NamesEpisode(title, ss, ee) ==
  \E i \in 1..Len(title) : \E dot \in BOOLEAN : NamedAt(title, i, ss, ee, dot)

\* the episode torrents the two sources returned
EpisodeTorrents == world.ygg.episodeTorrents \o world.sw.episodeTorrents

IdsIn(torrents) == {torrents[i].id : i \in 1..Len(torrents)}

\* C13: in the candidate list of a series request for season s, episode e
\* an episode torrent is kept if and only if its title contains, in any
\* case, S<ss>E<ee> or S<ss>.E<ee> with s and e written with two digits; for
\* season 1, episode 2 the S01E02 and s01.e02 titles are kept, S01E03 and
\* S1E2 are dropped.
C13_EpisodeFilter ==
  \A r \in Reqs :
    (Merged(r) /\ req[r].type = "series") =>
      /\ \A i \in 1..Len(EpisodeTorrents) :
           LET t == EpisodeTorrents[i]
           IN t.id \in IdsIn(loc[r].allTorrents)
                <=> NamesEpisode(t.title, TwoDigits(loc[r].season), TwoDigits(loc[r].episode))
      /\ (req[r].id = IdS1E2 /\ world.ygg = YggFull /\ world.sw = SwFull) =>
           IdsIn(loc[r].allTorrents) \cap IdsIn(EpisodeTorrents) = {"y2", "s3"}
      /\ (req[r].id \in {IdS1E3, IdS01E03} /\ world.ygg = YggFull /\ world.sw = SwFull) =>
           IdsIn(loc[r].allTorrents) \cap IdsIn(EpisodeTorrents) = {"y3"}

\* C13 witness: for season 1, episode 2 the filter kept a title with the dot
\* and one without, and dropped another episode and an unpadded title
C13_Witness ==
  \E r \in Reqs :
    /\ Merged(r) /\ req[r].id = IdS1E2
    /\ IdsIn(EpisodeTorrents) = {"y2", "y3", "s3", "s5"}
    /\ IdsIn(loc[r].allTorrents) \cap IdsIn(EpisodeTorrents) = {"y2", "s3"}

\* no other request ran while r did
Alone(r) == \A o \in Reqs \ {r} : pc[o] = "Idle" \/ o \in earlier[r]

\* the row is stored under the exact key of r
UnderRequestKey(r, row) ==
  /\ row.imdb_id = loc[r].imdbId
  /\ row.season = loc[r].season
  /\ row.episode = loc[r].episode

\* C14: when a request that missed the cache was answered from line 268 and
\* no other request ran meanwhile, a lookup of its exact key finds exactly
\* the returned sequence if that is non-empty; with an empty output the
\* request wrote nothing under its key.
C14_FinalBatch ==
  \A r \in Reqs :
    (pc[r] = "Done" /\ exit[r] = "L268" /\ Alone(r)) =>
      IF resp[r].streams # <<>>
      THEN GetCachedStream(cache, loc[r].imdbId, loc[r].season, loc[r].episode)
             = [found |-> TRUE, streams |-> resp[r].streams]
      ELSE \A i \in 1..Len(writes[r]) : ~UnderRequestKey(r, writes[r][i])

\* the video files the debrid service lists, over all torrents
AllFiles == UNION {{GetFilesFromMagnetId(world, h)[i] :
                      i \in 1..Len(GetFilesFromMagnetId(world, h))} : h \in AllHashes}

\* the entry was built from the file: its name in the title, its unlocked link
BuiltFrom(entry, file) ==
  entry.title[2] = file.name /\ entry.url = UnlockFileLink(world, file.link)

\* the name of the file carries SxxEyy with xx, yy the two-digit forms of s, e
FileOfEpisode(file, s, e) ==
  LET m == EpisodeMatch(file.name)
  IN m.matched /\ m.season = TwoDigits(s) /\ m.episode = TwoDigits(e)

\* C15: every entry in the response of a series request for season s,
\* episode e was built from a listed file whose name carries S<ss>E<ee>;
\* files of other episodes and files without SxxEyy never appear.
C15_SeriesOutputFilter ==
  \A r \in Reqs :
    (req[r].type = "series" /\ pc[r] = "Done" /\ resp[r].status = 200) =>
      \A i \in 1..Len(resp[r].streams) :
        /\ loc[r].season # NULL /\ loc[r].episode # NULL
        /\ \E file \in AllFiles :
             /\ BuiltFrom(resp[r].streams[i], file)
             /\ FileOfEpisode(file, loc[r].season, loc[r].episode)

\* C15 witness: a series request answered with an entry of its episode
\* after it unlocked and cached a file of another episode
C15_Witness ==
  \E r \in Reqs :
    /\ req[r].type = "series" /\ pc[r] = "Done" /\ exit[r] = "L268"
    /\ resp[r].streams # <<>>
    /\ \E i \in 1..Len(writes[r]) :
         /\ writes[r][i].episode # TwoDigits(loc[r].episode)
         /\ writes[r][i].episode # loc[r].episode

\* the listed file with this link
FileOfLink(link) == CHOOSE f \in AllFiles : f.link = link

\* the unlock calls of r that returned a url, in order
GoodUnlocks(r) ==
  SelectSeq(calls[r], LAMBDA c : c.kind = "unlock" /\ c.arg[1] \notin world.unlockFail)

\* the final batch of r has been written
BatchWritten(r) == exit[r] = "L268" /\ Len(loc[r].streams) > 0

\* the rows r wrote file by file, in order
PerFileWrites(r) ==
  IF BatchWritten(r) THEN SubSeq(writes[r], 1, Len(writes[r]) - 1) ELSE writes[r]

\* the files of the torrent at hand that come after the current one and
\* reach the lookup
LaterFiles(r) ==
  {i \in (loc[r].fIdx + 1)..Len(loc[r].videoFiles) :
     FileAwaits(req[r].type, loc[r].videoFiles[i])}

C16_State ==
  \A r \in Reqs :
    req[r].type = "series" =>
      /\ pc[r] \in {"Unlock", "StoreFile"} => ~loc[r].cached.found
      /\ \A i \in 1..Len(GoodUnlocks(r)) : \A j \in 1..Len(GoodUnlocks(r)) :
           i < j => FileKey("series", FileOfLink(GoodUnlocks(r)[i].arg[1]))
                      # FileKey("series", FileOfLink(GoodUnlocks(r)[j].arg[1]))
      /\ Len(GoodUnlocks(r)) =
           Len(PerFileWrites(r)) + (IF pc[r] = "StoreFile" THEN 1 ELSE 0)
      /\ \A k \in 1..Len(PerFileWrites(r)) :
           LET row == PerFileWrites(r)[k]
               file == FileOfLink(GoodUnlocks(r)[k].arg[1])
           IN /\ row.imdb_id = loc[r].imdbId
              /\ row.season = FileKey("series", file).season
              /\ row.episode = FileKey("series", file).episode
              /\ Len(JSONparse(row.streams_json)) = 1
              /\ BuiltFrom(JSONparse(row.streams_json)[1], file)

\* the unlock of the file at hand returns nothing
C16_FailedUnlock(r) ==
  /\ req[r].type = "series" /\ pc[r] = "Unlock" /\ calls'[r] # calls[r]
  /\ loc[r].videoFiles[loc[r].fIdx].link \in world.unlockFail

C16_Step ==
  \A r \in Reqs :
    C16_FailedUnlock(r) =>
      /\ cache' = cache /\ writes' = writes
      /\ loc'[r].filteredFiles = loc[r].filteredFiles
      /\ IF LaterFiles(r) # {}
         THEN /\ pc'[r] = "FileLookup"
              /\ loc'[r].fIdx \in LaterFiles(r)
              /\ \A i \in LaterFiles(r) : loc'[r].fIdx <= i
         ELSE /\ pc'[r] \in {"ListFiles", "FinalStore", "Done"}
              /\ pc'[r] = "ListFiles" => loc'[r].tIdx = loc[r].tIdx + 1

\* C16: in a series request the unlock adapter is called for a file only
\* when the lookup of the file's detected (season, episode) just before found
\* nothing; every unlock that returned a url is followed by the write of that
\* entry under the detected key before anything else, so two unlocks that
\* returned a url never have the same detected key; an unlock that returns
\* nothing writes nothing, pushes nothing and the loop goes on with the next
\* file or torrent.
C16_UnlockOnMiss == []C16_State /\ [][C16_Step]_vars

\* C16 witness: a series request had an unlock that returned nothing, then
\* another unlock that returned a url and was stored, and was answered
C16_Witness ==
  \E r \in Reqs :
    /\ req[r].type = "series" /\ exit[r] = "L268"
    /\ \E i \in 1..Len(calls[r]) : \E j \in 1..Len(calls[r]) :
         /\ i < j
         /\ calls[r][i].kind = "unlock" /\ calls[r][i].arg[1] \in world.unlockFail
         /\ calls[r][j].kind = "unlock" /\ calls[r][j].arg[1] \notin world.unlockFail
    /\ Len(PerFileWrites(r)) > 0
    /\ \E f \in 1..Len(loc[r].videoFiles) :
         /\ loc[r].videoFiles[f].link \in world.unlockFail
         /\ \E g \in (f + 1)..Len(loc[r].videoFiles) :
              Call("unlock", <<loc[r].videoFiles[g].link>>)
                \in {calls[r][i] : i \in 1..Len(calls[r])}

\* the torrents the two sources returned, over all buckets
Returned ==
  UNION {{world.ygg[b][i] : i \in 1..Len(world.ygg[b])}
           \cup {world.sw[b][i] : i \in 1..Len(world.sw[b])} : b \in Buckets}

\* the hash the source returned the torrent with ("": none)
ReturnedHash(id) == (CHOOSE t \in Returned : t.id = id).hash

\* the hash the candidate is uploaded with ("": it is dropped)
UploadHash(id) ==
  IF ReturnedHash(id) # "" THEN ReturnedHash(id) ELSE GetTorrentHashFromYgg(world, id)

\* how many truncated candidates of r hash resolution has dealt with
Resolved(r) ==
  IF pc[r] = "ResolveHash" THEN loc[r].hIdx - 1 ELSE Len(loc[r].limitedTorrents)

\* the hash-lookup calls of r, in order
HashCalls(r) == SelectSeq(calls[r], LAMBDA c : c.kind = "hash")

\* the upload calls of r
UploadCalls(r) == SelectSeq(calls[r], LAMBDA c : c.kind = "upload")

\* C17: the hash adapter is called once, in order, for each truncated
\* candidate the source returned without a hash and for no other; the upload
\* list is the in-order subsequence of the truncated candidates that came
\* with a hash or whose lookup returned one, and it is what is uploaded.
C17_HashResolution ==
  \A r \in Reqs :
    Merged(r) =>
      LET done == SubSeq(Ids(loc[r].limitedTorrents), 1, Resolved(r))
          hashless == SelectSeq(done, LAMBDA id : ReturnedHash(id) = "")
          kept == SelectSeq(done, LAMBDA id : UploadHash(id) # "")
      IN /\ [i \in 1..Len(HashCalls(r)) |-> HashCalls(r)[i].arg[1]] = hashless
         /\ [i \in 1..Len(loc[r].magnets) |-> loc[r].magnets[i].hash]
              = [i \in 1..Len(kept) |-> UploadHash(kept[i])]
         /\ \A i \in 1..Len(UploadCalls(r)) :
              /\ i = 1 /\ pc[r] # "ResolveHash"
              /\ UploadCalls(r)[i].arg = [k \in 1..Len(kept) |-> UploadHash(kept[k])]

\* C17 witness: an upload was made of a list that mixes a looked-up hash and
\* a returned hash after one lookup returned nothing; another request
\* uploaded candidates that all came with a hash, without any lookup
C17_Witness ==
  \E r \in Reqs : \E o \in Reqs :
    /\ Len(UploadCalls(o)) = 1 /\ HashCalls(o) = <<>>
    /\ Len(UploadCalls(r)) = 1
    /\ \E i \in 1..Len(loc[r].limitedTorrents) :
         LET id == loc[r].limitedTorrents[i].id
         IN ReturnedHash(id) = "" /\ UploadHash(id) = ""
    /\ \E i \in 1..Len(loc[r].limitedTorrents) :
         LET id == loc[r].limitedTorrents[i].id
         IN ReturnedHash(id) = "" /\ UploadHash(id) # ""
    /\ \E i \in 1..Len(loc[r].limitedTorrents) :
         ReturnedHash(loc[r].limitedTorrents[i].id) # ""

\* the list-files calls of r, in order
ListCalls(r) == SelectSeq(calls[r], LAMBDA c : c.kind = "list")

\* the uploaded torrent the listed file with this link belongs to
TorrentOfLink(link) ==
  CHOOSE h \in AllHashes :
    \E i \in 1..Len(GetFilesFromMagnetId(world, h)) :
      GetFilesFromMagnetId(world, h)[i].link = link

\* the link the entry's url was unlocked from
LinkOf(entry) == entry.url[2]

\* the torrent of the last list-files call among the first p calls of r
ListedBefore(r, p) ==
  LET ls == {i \in 1..p : calls[r][i].kind = "list"}
  IN IF ls = {} THEN "" ELSE calls[r][CHOOSE i \in ls : \A j \in ls : j <= i].arg[1]

\* C18: the files of an uploaded torrent are listed only when the upload
\* reported it ready, in the order of the upload's answer; a link is unlocked
\* only for a file of the torrent listed last; no entry of a response or of
\* the cache comes from a file of a torrent that is not ready.
C18_OnlyReady ==
  /\ \A r \in Reqs :
       /\ UploadCalls(r) = <<>> => KindsOf(r) \cap {"list", "unlock"} = {}
       /\ UploadCalls(r) # <<>> =>
            LET ready == SelectSeq(UploadCalls(r)[1].arg, LAMBDA h : h \notin world.notReady)
            IN /\ Len(ListCalls(r)) <= Len(ready)
               /\ \A i \in 1..Len(ListCalls(r)) : ListCalls(r)[i].arg[1] = ready[i]
       /\ \A p \in 1..Len(calls[r]) :
            calls[r][p].kind = "unlock" =>
              /\ ListedBefore(r, p) = TorrentOfLink(calls[r][p].arg[1])
              /\ ListedBefore(r, p) \notin world.notReady
       /\ \A i \in 1..Len(resp[r].streams) :
            TorrentOfLink(LinkOf(resp[r].streams[i])) \notin world.notReady
  /\ \A row \in BagToSet(cache) :
       \A i \in 1..Len(JSONparse(row.streams_json)) :
         TorrentOfLink(LinkOf(JSONparse(row.streams_json)[i])) \notin world.notReady

\* C18 witness: an upload answered with a torrent that is not ready ahead
\* of ready ones, files were listed and unlocked, and the request was
\* answered with streams
C18_Witness ==
  \E r \in Reqs :
    /\ exit[r] = "L268" /\ resp[r].streams # <<>>
    /\ Len(UploadCalls(r)) = 1
    /\ \E i \in 1..Len(UploadCalls(r)[1].arg) : \E j \in 1..Len(UploadCalls(r)[1].arg) :
         /\ i < j
         /\ UploadCalls(r)[1].arg[i] \in world.notReady
         /\ UploadCalls(r)[1].arg[j] \notin world.notReady
    /\ "unlock" \in KindsOf(r)

\* the sources whose search has returned to r
Searched(r) == {c.arg[1] : c \in {calls[r][i] : i \in {j \in 1..Len(calls[r]) : calls[r][j].kind = "search"}}}

\* the candidate ids the answers of the two sources give for the request of
\* r, the first source ahead of the second in every bucket
ExpectedIds(r) ==
  IF req[r].type = "series"
  THEN Ids(world.ygg.completeSeriesTorrents) \o Ids(world.sw.completeSeriesTorrents)
         \o Ids(world.ygg.completeSeasonTorrents) \o Ids(world.sw.completeSeasonTorrents)
         \o Ids(SelectSeq(EpisodeTorrents,
               LAMBDA t : NamesEpisode(t.title, TwoDigits(loc[r].season),
                                       TwoDigits(loc[r].episode))))
  ELSE Ids(world.ygg.movieTorrents) \o Ids(world.sw.movieTorrents)

\* C19: both searches are in flight from the moment the handler waits for
\* them; nothing is merged, looked up, uploaded, unlocked or written before
\* both have returned; whichever returns first, the merged list is the same;
\* when a search rejects the handler ends with that error and has made no
\* hash lookup, upload, list, unlock or cache write.
C19_SearchJoin ==
  \A r \in Reqs :
    /\ pc[r] = "Search" =>
         /\ loc[r].pending = {"ygg", "sharewood"} \ Searched(r)
         /\ loc[r].pending # {}
         /\ loc[r].allTorrents = <<>>
         /\ KindsOf(r) \subseteq {"catalog", "search"} /\ writes[r] = <<>>
    /\ Merged(r) =>
         /\ Searched(r) = {"ygg", "sharewood"}
         /\ Len(SelectSeq(calls[r], LAMBDA c : c.kind = "search")) = 2
         /\ loc[r].yggResults = world.ygg /\ loc[r].sharewoodResults = world.sw
         /\ Ids(loc[r].allTorrents) = ExpectedIds(r)
    /\ loc[r].err = "L53" =>
         /\ pc[r] = "Crashed" /\ exit[r] = "L53" /\ resp[r] = NoResp
         /\ KindsOf(r) \subseteq {"catalog", "search"} /\ writes[r] = <<>>
         /\ loc[r].allTorrents = <<>> /\ loc[r].magnets = <<>>

\* C19 witness: one request merged after the second source returned first,
\* another was ended by a search that rejected after the other had returned
C19_Witness ==
  \E a \in Reqs : \E b \in Reqs :
    /\ Merged(a) /\ Len(loc[a].allTorrents) > 2
    /\ \E i \in 1..Len(calls[a]) : \E j \in 1..Len(calls[a]) :
         i < j /\ calls[a][i] = Call("search", <<"sharewood">>)
               /\ calls[a][j] = Call("search", <<"ygg">>)
    /\ loc[b].err = "L53" /\ pc[b] = "Crashed" /\ Searched(b) # {}

\* a and b ran at the same time
Overlapping(a, b) == a # b /\ a \notin earlier[b] /\ b \notin earlier[a]

\* C20 (series requests): a video file is unlocked by at most one of two
\* overlapping requests.
C20_UnlockedOnce ==
  \A a \in Reqs : \A b \in Reqs :
    (Overlapping(a, b) /\ req[a].type = "series" /\ req[b].type = "series") =>
      \A i \in 1..Len(GoodUnlocks(a)) : \A j \in 1..Len(GoodUnlocks(b)) :
        GoodUnlocks(a)[i].arg # GoodUnlocks(b)[j].arg

\* o asked for the same exact key as r
SameKey(o, r) ==
  /\ loc[o].imdbId = loc[r].imdbId
  /\ loc[o].season = loc[r].season
  /\ loc[o].episode = loc[r].episode

\* the sequence is the output a request for the key of r built and returned
FinalOutputFor(r, streams) ==
  \E o \in Reqs :
    /\ SameKey(o, r) /\ pc[o] = "Done" /\ exit[o] = "L268"
    /\ resp[o].streams = streams

\* C21: in every state a lookup of the exact key of a request finds nothing
\* or the complete output that a request for that key built and returned;
\* so does the answer of a request served from the cache.
C21_SlotHoldsFinalOutput ==
  \A r \in Reqs :
    pc[r] # "Idle" /\ req[r].config.valid =>
      LET c == GetCachedStream(cache, loc[r].imdbId, loc[r].season, loc[r].episode)
      IN /\ c.found => FinalOutputFor(r, c.streams)
         /\ exit[r] = "L41" => FinalOutputFor(r, resp[r].streams)

\* C22: every row the handler writes holds a non-empty sequence, one entry
\* for a per-file write; no row of the table holds an empty sequence and a
\* request answered from the cache at line 41 gets a non-empty sequence.
C22_NoEmptySlot ==
  /\ \A row \in BagToSet(cache) : Len(JSONparse(row.streams_json)) > 0
  /\ \A r \in Reqs :
       /\ \A i \in 1..Len(writes[r]) : Len(JSONparse(writes[r][i].streams_json)) > 0
       /\ \A i \in 1..Len(PerFileWrites(r)) :
            Len(JSONparse(PerFileWrites(r)[i].streams_json)) = 1
       /\ BatchWritten(r) =>
            JSONparse(writes[r][Len(writes[r])].streams_json) = resp[r].streams
       /\ exit[r] = "L41" => (resp[r].status = 200 /\ resp[r].streams # <<>>)

\* C22 witness: one request ended with an empty output and wrote no batch
\* after a per-file write, another was answered from the cache
C22_Witness ==
  \E a \in Reqs : \E b \in Reqs :
    /\ exit[a] = "L268" /\ resp[a].streams = <<>> /\ Len(writes[a]) > 0
    /\ exit[b] = "L41" /\ cache # EmptyBag

====
